---- MODULE Spec2Model ----
(***************************************************************************)
(* A model of jira-audit: the profile store (config.py), the credential    *)
(* store (auth.py), the per-profile SQLite cache (db.py), the Jira search  *)
(* client (jira_client.py) and the commands configure, whoami and sync     *)
(* (cli.py).                                                               *)
(*                                                                         *)
(* Python strings are sequences of one-character strings, so that          *)
(* str.lower, str.strip and concatenation are computed character by        *)
(* character.  A value that may be None is a tagged record: PyStr(s) for a *)
(* string, PyNone for None.                                                *)
(***************************************************************************)
EXTENDS Integers, Sequences, FiniteSets, TLC

VARIABLES
    files,      \* the clients directory: path -> NoFile or the YAML document written there
    keyring,    \* the OS vault: <<service, account>> -> the stored password
    dbs,        \* the data directory: path -> NoFile or the SQLite database stored there
    last,       \* the last finished call: its name, arguments, return value or error
    pc,         \* where the running sync command (or search_issues call) stands
    sy,         \* the locals of sync
    cl,         \* the locals of JiraClient.search_issues
    net,        \* the Jira site: the issues that match the query, and how it pages them
    ghost       \* history: what was saved and written so far (read by no operation)

vars == <<files, keyring, dbs, last, pc, sy, cl, net, ghost>>


(***************************************************************************)
(* Strings                                                                 *)
(***************************************************************************)
LowerChar(c) ==
    CASE c = "A" -> "a"
      [] c = "B" -> "b"
      [] c = "H" -> "h"
      [] OTHER -> c

\* str.lower()
Lower(s) == [i \in 1..Len(s) |-> LowerChar(s[i])]

IsSpace(c) == c = " "

RECURSIVE LStrip(_)
LStrip(s) == IF s # <<>> /\ IsSpace(Head(s)) THEN LStrip(Tail(s)) ELSE s

RECURSIVE RStrip(_)
RStrip(s) ==
    IF s # <<>> /\ IsSpace(s[Len(s)]) THEN RStrip(SubSeq(s, 1, Len(s) - 1)) ELSE s

\* str.strip()
Strip(s) == RStrip(LStrip(s))

\* cli.normalize_base_url: strip, then drop one trailing slash
normalize_base_url(url) ==
    LET u == Strip(url)
    IN  IF u # <<>> /\ u[Len(u)] = "/" THEN SubSeq(u, 1, Len(u) - 1) ELSE u

(***************************************************************************)
(* Python values that travel through YAML: tagged, so that a string, a     *)
(* number read back from the file and None stay comparable.                *)
(***************************************************************************)
PyStr(s) == [t |-> "str", v |-> s]
PyInt(s) == [t |-> "int", v |-> s]
PyBool(s) == [t |-> "bool", v |-> s]
PyNone == [t |-> "none", v |-> <<>>]
PyList(xs) == [t |-> "list", v |-> xs]
PyDict(kvs) == [t |-> "dict", v |-> kvs]
None == PyNone
\* a path at which no file exists
NoFile == [kind |-> "nofile"]

Digits == {"0", "1", "2", "3", "4", "5", "6", "7", "8", "9"}

AllDigits(s) == s # <<>> /\ \A i \in 1..Len(s) : s[i] \in Digits

\* The implicit resolver of YAML 1.1 on a plain scalar, for the scalars of this model:
\* null, the booleans, decimal integers and base-60 integers (1:30); else a string.
YamlNullWords == {<<>>, <<"~">>, <<"n", "u", "l", "l">>}
YamlBoolWords ==
    {<<"y", "e", "s">>, <<"n", "o">>, <<"o", "n">>, <<"o", "f", "f">>,
     <<"t", "r", "u", "e">>, <<"f", "a", "l", "s", "e">>}

IsSexagesimal(s) ==
    \E k \in 2..(Len(s) - 1) :
        /\ s[k] = ":"
        /\ AllDigits(SubSeq(s, 1, k - 1)) /\ s[1] # "0"
        /\ AllDigits(SubSeq(s, k + 1, Len(s))) /\ Len(s) - k <= 2
        /\ (Len(s) - k = 2 => s[k + 1] \in {"0", "1", "2", "3", "4", "5"})

YamlResolve(s) ==
    CASE s \in YamlNullWords -> "none"
      [] s \in YamlBoolWords -> "bool"
      [] AllDigits(s) \/ IsSexagesimal(s) -> "int"
      [] OTHER -> "str"

\* The emitter writes a string plain only when it would be read back as that string.
PlainAllowed(s) ==
    /\ s # <<>>
    /\ ~IsSpace(s[1]) /\ ~IsSpace(s[Len(s)])
    /\ s[1] \notin {":", "/", "#", "-", "?"}
    /\ \A i \in 1..(Len(s) - 1) : ~(s[i] = ":" /\ IsSpace(s[i + 1]))

ScalarStyle(s) == IF YamlResolve(s) = "str" /\ PlainAllowed(s) THEN "plain" ELSE "quoted"

\* yaml.safe_dump of a value: the document as a tree of nodes
RECURSIVE YamlDump(_)
YamlDump(x) ==
    CASE x.t = "str" -> [kind |-> "scalar", style |-> ScalarStyle(x.v), text |-> x.v]
      [] x.t = "none" -> [kind |-> "scalar", style |-> "plain", text |-> <<"n", "u", "l", "l">>]
      [] x.t = "bool" -> [kind |-> "scalar", style |-> "plain", text |-> x.v]
      [] x.t = "int" -> [kind |-> "scalar", style |-> "plain", text |-> x.v]
      [] x.t = "list" ->
            [kind |-> "seq", style |-> "block",
             text |-> [i \in 1..Len(x.v) |-> YamlDump(x.v[i])]]
      [] OTHER ->
            [kind |-> "map", style |-> "block",
             text |-> [i \in 1..Len(x.v) |-> <<YamlDump(PyStr(x.v[i][1])), YamlDump(x.v[i][2])>>]]

\* yaml.safe_load of a document
RECURSIVE YamlLoad(_)
YamlLoad(n) ==
    CASE n.kind = "scalar" ->
            IF n.style = "quoted" THEN PyStr(n.text)
            ELSE CASE YamlResolve(n.text) = "none" -> PyNone
                   [] YamlResolve(n.text) = "bool" -> PyBool(n.text)
                   [] YamlResolve(n.text) = "int" -> PyInt(n.text)
                   [] OTHER -> PyStr(n.text)
      [] n.kind = "seq" -> PyList([i \in 1..Len(n.text) |-> YamlLoad(n.text[i])])
      [] OTHER ->
            PyDict([i \in 1..Len(n.text) |-> <<YamlLoad(n.text[i][1]).v, YamlLoad(n.text[i][2])>>])

(***************************************************************************)
(* config.py: the profile store                                            *)
(***************************************************************************)
\* The field names of ClientProfile, in the order the dataclass declares them.  A
\* field name is one token: it is never taken apart.
FieldNames ==
    << <<"name">>, <<"jira_base_url">>, <<"email">>, <<"project_key">>, <<"timezone">>,
       <<"business_hours_start">>, <<"business_hours_end">>, <<"holidays">>,
       <<"status_rollups">>, <<"use_flagged">>, <<"flagged_value">>,
       <<"blocked_status_names">> >>

RequiredFields ==
    {<<"name">>, <<"jira_base_url">>, <<"email">>, <<"project_key">>, <<"timezone">>}

PyTrue == PyBool(<<"t", "r", "u", "e">>)

\* ClientProfile(name, jira_base_url, email, project_key, timezone): the dataclass
\* with its defaults
ClientProfile(name, url, email, project_key, timezone) ==
    [name |-> name, jira_base_url |-> url, email |-> email, project_key |-> project_key,
     timezone |-> timezone,
     business_hours_start |-> PyStr(<<"0", "9", ":", "0", "0">>),
     business_hours_end |-> PyStr(<<"1", "7", ":", "0", "0">>),
     holidays |-> PyNone,
     status_rollups |-> PyNone,
     use_flagged |-> PyTrue,
     flagged_value |-> PyStr(<<"I", "m", "p", "e", "d", "i", "m", "e", "n", "t">>),
     blocked_status_names |-> PyNone]

\* dataclasses.asdict: the fields in declared order
asdict(p) ==
    PyDict(<< <<FieldNames[1], p.name>>, <<FieldNames[2], p.jira_base_url>>,
              <<FieldNames[3], p.email>>, <<FieldNames[4], p.project_key>>,
              <<FieldNames[5], p.timezone>>, <<FieldNames[6], p.business_hours_start>>,
              <<FieldNames[7], p.business_hours_end>>, <<FieldNames[8], p.holidays>>,
              <<FieldNames[9], p.status_rollups>>, <<FieldNames[10], p.use_flagged>>,
              <<FieldNames[11], p.flagged_value>>, <<FieldNames[12], p.blocked_status_names>> >>)

HasKey(kvs, k) == \E i \in 1..Len(kvs) : kvs[i][1] = k

\* dict lookup: the last pair with the key wins
Lookup(kvs, k, default) ==
    IF HasKey(kvs, k)
    THEN kvs[CHOOSE i \in 1..Len(kvs) :
                kvs[i][1] = k /\ \A j \in (i + 1)..Len(kvs) : kvs[j][1] # k][2]
    ELSE default

\* ClientProfile(**data): a TypeError on an unknown key or a missing required field
FromDictOk(d) ==
    /\ d.t = "dict"
    /\ \A i \in 1..Len(d.v) : \E j \in 1..Len(FieldNames) : d.v[i][1] = FieldNames[j]
    /\ \A k \in RequiredFields : HasKey(d.v, k)

FromDict(d) ==
    LET dflt == ClientProfile(PyNone, PyNone, PyNone, PyNone, PyNone)
    IN  [name |-> Lookup(d.v, FieldNames[1], PyNone),
         jira_base_url |-> Lookup(d.v, FieldNames[2], PyNone),
         email |-> Lookup(d.v, FieldNames[3], PyNone),
         project_key |-> Lookup(d.v, FieldNames[4], PyNone),
         timezone |-> Lookup(d.v, FieldNames[5], PyNone),
         business_hours_start |-> Lookup(d.v, FieldNames[6], dflt.business_hours_start),
         business_hours_end |-> Lookup(d.v, FieldNames[7], dflt.business_hours_end),
         holidays |-> Lookup(d.v, FieldNames[8], dflt.holidays),
         status_rollups |-> Lookup(d.v, FieldNames[9], dflt.status_rollups),
         use_flagged |-> Lookup(d.v, FieldNames[10], dflt.use_flagged),
         flagged_value |-> Lookup(d.v, FieldNames[11], dflt.flagged_value),
         blocked_status_names |-> Lookup(d.v, FieldNames[12], dflt.blocked_status_names)]

\* CLIENTS_DIR / f"{profile_name}.yaml"
profile_path(profile_name) == <<"clients", "/">> \o profile_name \o <<".yaml">>

\* save_profile: the file is opened with "w" and the whole document written
SaveProfileDoc(profile) == YamlDump(asdict(profile))

\* (mutant) a save that keeps the optional fields of the file already there
save_profile_merging(fs, profile) ==
    LET p == profile_path(profile.name.v)
        old == IF fs[p] = NoFile THEN profile ELSE FromDict(YamlLoad(fs[p]))
    IN  [fs EXCEPT ![p] =
            SaveProfileDoc([old EXCEPT !.name = profile.name,
                                       !.jira_base_url = profile.jira_base_url,
                                       !.email = profile.email,
                                       !.project_key = profile.project_key,
                                       !.timezone = profile.timezone])]

save_profile(fs, profile) ==
    [fs EXCEPT ![profile_path(profile.name.v)] = SaveProfileDoc(profile)]

\* load_profile: FileNotFoundError when the file is absent; `or {}` on an empty document
NotFound(profile_name) ==
    [kind |-> "FileNotFoundError", profile |-> profile_name,
     path |-> profile_path(profile_name),
     hint |-> <<"python -m jira-audit.cli configure ">> \o profile_name]

load_profile(fs, profile_name) ==
    LET p == profile_path(profile_name)
    IN  IF fs[p] = NoFile
        THEN [err |-> NotFound(profile_name), ret |-> None]
        ELSE LET loaded == YamlLoad(fs[p])
                 data == IF loaded = PyNone THEN PyDict(<<>>) ELSE loaded
             IN  IF FromDictOk(data)
                 THEN [err |-> None, ret |-> FromDict(data)]
                 ELSE [err |-> [kind |-> "TypeError", profile |-> profile_name,
                                path |-> p, hint |-> <<>>],
                       ret |-> None]

(***************************************************************************)
(* auth.py: the credential store                                           *)
(***************************************************************************)
SERVICE == <<"jira-audit">>

\* f"{profile_name}::{jira_base_url}".lower()
keychain_account(profile_name, jira_base_url) ==
    Lower(profile_name \o <<":", ":">> \o jira_base_url)

\* keyring.set_password / keyring.get_password
set_password(kr, service, acct, token) == (<<service, acct>> :> token) @@ kr

get_password(kr, service, acct) ==
    IF <<service, acct>> \in DOMAIN kr THEN kr[<<service, acct>>] ELSE None

save_token(kr, profile_name, jira_base_url, token) ==
    set_password(kr, SERVICE, keychain_account(profile_name, jira_base_url), token)

load_token(kr, profile_name, jira_base_url) ==
    get_password(kr, SERVICE, keychain_account(profile_name, jira_base_url))

(***************************************************************************)
(* The inputs of the profile and credential operations                     *)
(***************************************************************************)
ProfileNames == {<<"A", "c">>, <<"a", "c">>, <<"b">>}

\* What the operator may type at the prompts of configure
RawUrls == {<<" ", "H", "/">>}
RawTokens == {<<" ", "s", " ">>, <<" ">>}
Emails == {<<"e">>}
ProjectKeys == {<<"A", "B">>}
Timezones == {<<"U">>}

\* Profiles handed to save_profile directly: the dataclass defaults, and list and
\* mapping fields that are set
SampleProfiles ==
    {ClientProfile(PyStr(n), PyStr(<<"h">>), PyStr(<<"e">>), PyStr(<<"n", "o">>),
                   PyStr(<<"U">>)) : n \in ProfileNames}
    \cup
    {[ClientProfile(PyStr(n), PyStr(<<"h">>), PyStr(<<"1", "7">>), PyStr(<<"A", "B">>),
                    PyStr(<<"U">>))
        EXCEPT !.holidays = PyList(<<PyStr(<<"1", ":", "3", "0">>)>>),
               !.status_rollups = PyDict(<< <<<<"Done">>, PyList(<<PyStr(<<"o", "n">>)>>)>> >>),
               !.blocked_status_names = PyList(<<>>)] : n \in ProfileNames}

FilePaths == {profile_path(n) : n \in ProfileNames}

Idle == [op |-> "none", arg |-> <<>>, err |-> None, ret |-> None]

Result(op, arg, err, ret) == [op |-> op, arg |-> arg, err |-> err, ret |-> ret]


\* History: the profile last saved under each name, and the name under which the
\* latest replacement of a different profile happened
Saved(g, n, profile) ==
    [g EXCEPT !.saved[n] = profile,
              !.over = IF g.saved[n] \notin {None, profile} THEN {n} ELSE @]

(***************************************************************************)
(* The profile and credential operations, called one at a time             *)
(***************************************************************************)
SaveProfile(profile) ==
    /\ pc = "idle"
    /\ files' = save_profile(files, profile)
    /\ last' = Result("save_profile", <<profile.name.v>>, None, None)
    /\ ghost' = Saved(ghost, profile.name.v, profile)
    /\ UNCHANGED <<keyring, dbs, pc, sy, cl, net>>

LoadProfile(n) ==
    /\ pc = "idle"
    /\ LET r == load_profile(files, n)
       IN  last' = Result("load_profile", <<n>>, r.err, r.ret)
    /\ UNCHANGED <<files, keyring, dbs, pc, sy, cl, net, ghost>>

\* cli.configure: the prompts, the token check, save_profile, save_token
ConfiguredProfile(profile, jira_base_url, email, project_key, timezone) ==
    [ClientProfile(PyStr(profile), PyStr(jira_base_url), PyStr(email), PyStr(project_key),
                   PyStr(timezone))
        EXCEPT !.holidays = PyList(<<>>),
               !.status_rollups =
                    PyDict(<< <<<<"Backlog">>, PyList(<<>>)>>, <<<<"InProgress">>, PyList(<<>>)>>,
                              <<<<"Review">>, PyList(<<>>)>>, <<<<"Blocked">>, PyList(<<>>)>>,
                              <<<<"Done">>, PyList(<<>>)>> >>),
               !.blocked_status_names = PyList(<<>>)]

Configure(profile, rawUrl, email, project_key, timezone, rawToken) ==
    /\ pc = "idle"
    /\ LET jira_base_url == normalize_base_url(rawUrl)
           token == Strip(rawToken)
           profile_obj == ConfiguredProfile(profile, jira_base_url, email, project_key, timezone)
       IN  IF token = <<>>
           THEN /\ last' = Result("configure", <<profile, jira_base_url, rawToken>>,
                                  [kind |-> "BadParameter", profile |-> profile,
                                   path |-> <<>>, hint |-> <<"Token cannot be empty.">>],
                                  None)
                /\ UNCHANGED <<files, keyring, ghost>>
           ELSE /\ files' = save_profile(files, profile_obj)
                /\ keyring' = save_token(keyring, profile, jira_base_url, PyStr(token))
                /\ last' = Result("configure", <<profile, jira_base_url, rawToken>>, None,
                                  PyStr(token))
                /\ ghost' = Saved(ghost, profile, profile_obj)
    /\ UNCHANGED <<dbs, pc, sy, cl, net>>

\* cli.whoami: load the profile and the token, ask /rest/api/3/myself
HttpStatuses == {200, 401}

MissingToken(profile) ==
    [kind |-> "BadParameter", profile |-> profile, path |-> <<>>,
     hint |-> <<"Run configure again.">>]

Whoami(profile, status) ==
    /\ pc = "idle"
    /\ LET r == load_profile(files, profile)
       IN  IF r.err # None
           THEN last' = Result("whoami", <<profile>>, r.err, None)
           ELSE LET token == load_token(keyring, profile, r.ret.jira_base_url.v)
                IN  IF token = None \/ token.v = <<>>
                    THEN last' = Result("whoami", <<profile>>, MissingToken(profile), None)
                    ELSE IF status >= 400
                         THEN last' = Result("whoami", <<profile>>,
                                             [kind |-> "Exit", profile |-> profile,
                                              path |-> <<>>, hint |-> <<"Auth failed.">>],
                                             token)
                         ELSE last' = Result("whoami", <<profile>>, None, token)
    /\ UNCHANGED <<files, keyring, dbs, pc, sy, cl, net, ghost>>

(***************************************************************************)
(* db.py: the per-profile SQLite cache                                     *)
(*                                                                         *)
(* A database file is a record: the columns of each table it holds (cols,  *)
(* a function on the names of the tables present), the names of its        *)
(* indexes, the rows of issues (in rowid order), of changelog_events and   *)
(* of sync_runs (in id order), and the AUTOINCREMENT counters.             *)
(***************************************************************************)
\* DATA_DIR / f"{profile_name}.sqlite"
db_path(profile_name) == <<"data", "/">> \o profile_name \o <<".sqlite">>

EmptyMap == [x \in {} |-> x]

\* What sqlite3.connect leaves at a path where no file was: a database without tables
EmptyDb ==
    [kind |-> "sqlite", cols |-> EmptyMap, indexes |-> {}, issues |-> <<>>,
     events |-> <<>>, runs |-> <<>>, seq_events |-> 0, seq_runs |-> 0]

get_connection(d, profile_name) ==
    IF d[db_path(profile_name)] = NoFile THEN EmptyDb ELSE d[db_path(profile_name)]

HasTable(db, table) == table \in DOMAIN db.cols

HasColumn(db, table, column) ==
    HasTable(db, table) /\ \E i \in 1..Len(db.cols[table]) : db.cols[table][i] = column

\* CREATE TABLE IF NOT EXISTS
CreateTableIfNotExists(db, table, columns) ==
    IF HasTable(db, table) THEN db ELSE [db EXCEPT !.cols = (table :> columns) @@ @]

IssuesColumns ==
    <<"issue_key", "issue_id", "issue_type", "created_at", "updated_at", "resolutiondate",
      "status_name", "assignee_display", "raw_json">>

\* The CREATE TABLE statement of changelog_events has no comma after `field TEXT`:
\* SQLite reads `TEXT from_value TEXT` as the type of the column field, and the table
\* is created without a column from_value.
EventsColumnsAsCreated == <<"id", "issue_key", "changed_at", "field", "to_value">>

RunsColumns == <<"id", "started_at", "finished_at", "issues_count", "events_count", "error">>

\* ensure_column: ALTER TABLE ADD COLUMN when PRAGMA table_info does not list it; the
\* rows already there read NULL in the new column
ensure_column(db, table, column) ==
    IF HasColumn(db, table, column)
    THEN db
    ELSE [db EXCEPT !.cols[table] = Append(@, column)]

\* COALESCE(x, '')
Coalesce(x) == IF x = None THEN PyStr(<<>>) ELSE x

\* The expressions ux_changelog_dedupe indexes
DedupeKey(row) ==
    <<row.issue_key, row.changed_at, row.field, Coalesce(row.from_value),
      Coalesce(row.to_value)>>

\* (mutant) the index on the bare columns, without COALESCE: NULLs never collide
DedupeConflictBareColumns(r1, r2) ==
    /\ DedupeKey(r1) = DedupeKey(r2)
    /\ \A i \in 1..3 : DedupeKey(r1)[i] # None
    /\ r1.from_value # None /\ r1.to_value # None
    /\ r2.from_value # None /\ r2.to_value # None

\* A unique index holds two rows apart when an indexed expression is NULL
DedupeConflict(r1, r2) ==
    /\ DedupeKey(r1) = DedupeKey(r2)
    /\ \A i \in 1..3 : DedupeKey(r1)[i] # None

RowsUnique(rows) ==
    \A i, j \in 1..Len(rows) : i # j => ~DedupeConflict(rows[i], rows[j])

DedupeIndex == "ux_changelog_dedupe"

\* ensure_indexes: CREATE UNIQUE INDEX IF NOT EXISTS; sqlite3.IntegrityError when the
\* rows already stored are not unique
\* (mutant) no index is created
ensure_indexes_skipped(db) == [err |-> None, db |-> db]

ensure_indexes(db) ==
    IF DedupeIndex \in db.indexes
    THEN [err |-> None, db |-> db]
    ELSE IF RowsUnique(db.events)
         THEN [err |-> None, db |-> [db EXCEPT !.indexes = @ \cup {DedupeIndex}]]
         ELSE [err |-> [kind |-> "IntegrityError", hint |-> <<DedupeIndex>>], db |-> db]

\* initialize_db: the three CREATE TABLE IF NOT EXISTS, the two ensure_column, the
\* commit, then ensure_indexes
initialize_db(db0) ==
    LET d1 == CreateTableIfNotExists(db0, "issues", IssuesColumns)
        d2 == CreateTableIfNotExists(d1, "changelog_events", EventsColumnsAsCreated)
        d3 == CreateTableIfNotExists(d2, "sync_runs", RunsColumns)
        d4 == ensure_column(d3, "changelog_events", "from_value")
        d5 == ensure_column(d4, "changelog_events", "to_value")
    IN  ensure_indexes(d5)

Initialized(db) ==
    /\ db # NoFile
    /\ HasTable(db, "issues") /\ HasTable(db, "sync_runs")
    /\ HasColumn(db, "changelog_events", "from_value")
    /\ HasColumn(db, "changelog_events", "to_value")
    /\ DedupeIndex \in db.indexes

OperationalError(table) == [kind |-> "OperationalError", hint |-> <<table>>]

\* upsert_issue: the derived columns of the payload
EmptyFields ==
    [issuetype |-> None, created |-> None, updated |-> None, resolutiondate |-> None,
     status |-> None, assignee |-> None]

\* (x or {}).get(k) on {"name": ...} and {"displayName": ...}
NameOf(x) == IF x = None THEN None ELSE x.name
DisplayNameOf(x) == IF x = None THEN None ELSE x.displayName

IssueRow(issue) ==
    LET fields == IF issue.fields = None THEN EmptyFields ELSE issue.fields
        assignee_display == DisplayNameOf(fields.assignee)
    IN  [issue_key |-> issue.key,
         issue_id |-> issue.id,
         issue_type |-> NameOf(fields.issuetype),
         created_at |-> fields.created,
         updated_at |-> fields.updated,
         resolutiondate |-> fields.resolutiondate,
         status_name |-> NameOf(fields.status),
         assignee_display |-> assignee_display,
         raw_json |-> [json |-> issue]]

\* (mutant) an ON CONFLICT clause that forgets status_name
OnConflictUpdateStaleStatus(old, new) ==
    [old EXCEPT !.issue_id = new.issue_id, !.issue_type = new.issue_type,
                !.created_at = new.created_at, !.updated_at = new.updated_at,
                !.resolutiondate = new.resolutiondate,
                !.assignee_display = new.assignee_display, !.raw_json = new.raw_json]

\* ON CONFLICT(issue_key) DO UPDATE SET: every column but the key from the new row
OnConflictUpdate(old, new) ==
    [old EXCEPT !.issue_id = new.issue_id, !.issue_type = new.issue_type,
                !.created_at = new.created_at, !.updated_at = new.updated_at,
                !.resolutiondate = new.resolutiondate, !.status_name = new.status_name,
                !.assignee_display = new.assignee_display, !.raw_json = new.raw_json]

\* The primary key conflicts with a stored row of the same key; a NULL key never does
KeyConflict(row, new) == new.issue_key # None /\ row.issue_key = new.issue_key

\* upsert_issue on an open connection: the rows of issues in rowid order
upsert_issue(db, issue) ==
    IF ~HasTable(db, "issues")
    THEN [err |-> OperationalError("issues"), db |-> db]
    ELSE LET new == IssueRow(issue)
         IN  [err |-> None,
              db |-> [db EXCEPT !.issues =
                        IF \E i \in 1..Len(@) : KeyConflict(@[i], new)
                        THEN [i \in 1..Len(@) |->
                                IF KeyConflict(@[i], new)
                                THEN OnConflictUpdate(@[i], new) ELSE @[i]]
                        ELSE Append(@, new)]]

\* insert_changelog_event on an open connection: the INSERT, and the IntegrityError of
\* the unique index swallowed
EventRow(id, issue_key, changed_at, field, from_value, to_value) ==
    [id |-> id, issue_key |-> issue_key, changed_at |-> changed_at, field |-> field,
     from_value |-> from_value, to_value |-> to_value]

IndexRejects(db, row) ==
    /\ DedupeIndex \in db.indexes
    /\ \E i \in 1..Len(db.events) : DedupeConflict(db.events[i], row)

insert_changelog_event(db, issue_key, changed_at, field, from_value, to_value) ==
    LET row == EventRow(db.seq_events + 1, issue_key, changed_at, field, from_value, to_value)
    IN  IF ~(HasColumn(db, "changelog_events", "from_value")
             /\ HasColumn(db, "changelog_events", "to_value"))
        THEN [err |-> OperationalError("changelog_events"), db |-> db, inserted |-> FALSE]
        ELSE IF IndexRejects(db, row)
             THEN [err |-> None, db |-> db, inserted |-> FALSE]
             ELSE [err |-> None,
                   db |-> [db EXCEPT !.events = Append(@, row), !.seq_events = @ + 1],
                   inserted |-> TRUE]

\* A row of sync_runs
RunRow(id, started_at, finished_at, issues_count, events_count, error) ==
    [id |-> id, started_at |-> started_at, finished_at |-> finished_at,
     issues_count |-> issues_count, events_count |-> events_count, error |-> error]

\* the rows the SELECT keeps: WHERE error IS NULL
ErrorIsNull(runs) == SelectSeq(runs, LAMBDA r : r.error = None)

\* (mutant) ORDER BY id ASC LIMIT 1
get_last_successful_sync_started_at_oldest(db) ==
    IF ~HasTable(db, "sync_runs")
    THEN [err |-> OperationalError("sync_runs"), ret |-> None]
    ELSE LET rows == ErrorIsNull(db.runs)
         IN  [err |-> None, ret |-> IF rows = <<>> THEN None ELSE rows[1].started_at]

\* get_last_successful_sync_started_at on an open connection: the rows are kept in id
\* order, ORDER BY id DESC LIMIT 1 is the last of those the WHERE keeps
get_last_successful_sync_started_at(db) ==
    IF ~HasTable(db, "sync_runs")
    THEN [err |-> OperationalError("sync_runs"), ret |-> None]
    ELSE LET rows == ErrorIsNull(db.runs)
         IN  [err |-> None, ret |-> IF rows = <<>> THEN None ELSE rows[Len(rows)].started_at]

\* insert_sync_run_start: the INSERT, and cur.lastrowid of the AUTOINCREMENT key
insert_sync_run_start(db, started_at) ==
    IF ~HasTable(db, "sync_runs")
    THEN [err |-> OperationalError("sync_runs"), db |-> db, ret |-> None]
    ELSE LET sync_id == db.seq_runs + 1
         IN  [err |-> None,
              db |-> [db EXCEPT !.runs = Append(@, RunRow(sync_id, started_at, None, 0, 0, None)),
                                !.seq_runs = sync_id],
              ret |-> PyInt(sync_id)]

\* finish_sync_run: UPDATE sync_runs SET ... WHERE id=?
finish_sync_run(db, sync_id, finished_at, issues, events, error) ==
    IF ~HasTable(db, "sync_runs")
    THEN [err |-> OperationalError("sync_runs"), db |-> db]
    ELSE [err |-> None,
          db |-> [db EXCEPT !.runs =
                    [k \in 1..Len(@) |->
                        IF @[k].id = sync_id
                        THEN [@[k] EXCEPT !.finished_at = finished_at, !.issues_count = issues,
                                          !.events_count = events, !.error = error]
                        ELSE @[k]]]]

(***************************************************************************)
(* The operations of db.py, called one at a time on a profile              *)
(***************************************************************************)
NoPrev == [set |-> FALSE, args |-> <<>>, ret |-> None, db |-> NoFile]

GhostInit ==
    [saved |-> [n \in ProfileNames |-> None], over |-> {},
     upserted |-> [n \in ProfileNames |-> EmptyMap], dropped |-> FALSE,
     prev |-> NoPrev, done |-> 0, limit |-> 0, upserts |-> 0, inserts |-> 0,
     calls |-> <<>>, throttled |-> FALSE, ids |-> {}]

InitializeDb(profile) ==
    /\ pc = "idle"
    /\ LET r == initialize_db(get_connection(dbs, profile))
       IN  /\ dbs' = [dbs EXCEPT ![db_path(profile)] = r.db]
           /\ last' = Result("initialize_db", <<profile>>, r.err, None)
    /\ UNCHANGED <<files, keyring, pc, sy, cl, net, ghost>>

UpsertIssue(profile, issue) ==
    /\ pc = "idle"
    /\ LET r == upsert_issue(get_connection(dbs, profile), issue)
       IN  /\ dbs' = [dbs EXCEPT ![db_path(profile)] = r.db]
           /\ last' = Result("upsert_issue", <<profile, issue.key.v>>, r.err, None)
           /\ ghost' = IF r.err = None
                       THEN [ghost EXCEPT !.upserted[profile] = (issue.key :> issue) @@ @]
                       ELSE ghost
    /\ UNCHANGED <<files, keyring, pc, sy, cl, net>>

InsertChangelogEvent(profile, issue_key, changed_at, field, from_value, to_value) ==
    /\ pc = "idle"
    /\ LET r == insert_changelog_event(get_connection(dbs, profile), issue_key, changed_at,
                                       field, from_value, to_value)
       IN  /\ dbs' = [dbs EXCEPT ![db_path(profile)] = r.db]
           /\ last' = Result("insert_changelog_event",
                             <<profile, issue_key, changed_at, field, from_value, to_value>>,
                             r.err, None)
           /\ ghost' = [ghost EXCEPT !.dropped = @ \/ (r.err = None /\ ~r.inserted)]
    /\ UNCHANGED <<files, keyring, pc, sy, cl, net>>

GetLastSuccessfulSyncStartedAt(profile) ==
    /\ pc = "idle"
    /\ LET r == get_last_successful_sync_started_at(get_connection(dbs, profile))
       IN  last' = Result("get_last_successful_sync_started_at", <<profile>>, r.err, r.ret)
    /\ UNCHANGED <<files, keyring, dbs, pc, sy, cl, net, ghost>>

InsertSyncRunStart(profile, started_at) ==
    /\ pc = "idle"
    /\ LET r == insert_sync_run_start(get_connection(dbs, profile), started_at)
       IN  /\ dbs' = [dbs EXCEPT ![db_path(profile)] = r.db]
           /\ last' = Result("insert_sync_run_start", <<profile, started_at>>, r.err, r.ret)
           /\ ghost' = IF r.err = None THEN [ghost EXCEPT !.ids = @ \cup {r.ret.v}] ELSE ghost
    /\ UNCHANGED <<files, keyring, pc, sy, cl, net>>

FinishSyncRun(profile, sync_id, finished_at, issues, events, error) ==
    /\ pc = "idle"
    /\ LET r == finish_sync_run(get_connection(dbs, profile), sync_id, finished_at, issues,
                                events, error)
       IN  /\ dbs' = [dbs EXCEPT ![db_path(profile)] = r.db]
           /\ last' = Result("finish_sync_run",
                             <<profile, PyInt(sync_id), finished_at, PyInt(issues),
                               PyInt(events), error>>,
                             r.err, None)
    /\ UNCHANGED <<files, keyring, pc, sy, cl, net, ghost>>

\* The arguments of the direct calls
DbProfiles == {<<"b">>}
EvKeys == {PyStr(<<"K-1">>)}
EvTimes == {PyStr(<<"t1">>)}
EvFields == {PyStr(<<"status">>), PyStr(<<"assignee">>)}
EvFrom == {None, PyStr(<<>>)}
EvTo == {None, PyStr(<<>>), PyStr(<<"Done">>)}

\* A database an earlier schema version left: changelog_events without from_value and
\* to_value, no sync_runs, no index, and rows that nothing kept unique
LegacyRow(id, field) ==
    EventRow(id, PyStr(<<"K-1">>), PyStr(<<"t1">>), field, None, None)

LegacyDb(rows) ==
    [EmptyDb EXCEPT
        !.cols = ("issues" :> IssuesColumns)
                 @@ ("changelog_events" :> <<"id", "issue_key", "changed_at", "field">>),
        !.events = rows,
        !.seq_events = Len(rows)]

LegacyRowSeqs ==
    {<<>>,
     <<LegacyRow(1, PyStr(<<"status">>))>>,
     <<LegacyRow(1, PyStr(<<"status">>)), LegacyRow(2, PyStr(<<"assignee">>))>>,
     <<LegacyRow(1, PyStr(<<"status">>)), LegacyRow(2, PyStr(<<"status">>))>>}

PreExisting == {NoFile} \cup {LegacyDb(rows) : rows \in LegacyRowSeqs}

MaxEvents == 3

\* Issue payloads as the search endpoint returns them
JiraIssue(key, status, assignee, changelog) ==
    [key |-> key, id |-> PyStr(<<"10">>),
     fields |-> [issuetype |-> [name |-> PyStr(<<"Bug">>)], created |-> PyStr(<<"t0">>),
                 updated |-> PyStr(<<"t1">>), resolutiondate |-> None,
                 status |-> [name |-> status], assignee |-> assignee],
     changelog |-> changelog]

IssueKeys == {PyStr(<<"K-1">>), PyStr(<<"K-2">>)}
StatusNames == {PyStr(<<"Open">>), PyStr(<<"Done">>)}
Assignees == {None, [displayName |-> PyStr(<<"Ann">>)]}

SampleIssues ==
    {JiraIssue(k, st, a, None) : k \in IssueKeys, st \in StatusNames, a \in Assignees}
    \cup {[JiraIssue(k, PyStr(<<"Open">>), None, None) EXCEPT !.fields = None] : k \in IssueKeys}

(***************************************************************************)
(* The Jira site: what GET /rest/api/3/search/jql answers                  *)
(*                                                                         *)
(* net.avail issues match the query; issue number x (from 1) is            *)
(* ServerIssue(net, x).  A page starts after startAt issues and holds at   *)
(* most maxResults and at most net.cap issues (a site may cap a page below *)
(* what was asked); every page reports net.total as "total", or no total   *)
(* at all when net.hasTotal is FALSE.  The site answers the same request   *)
(* the same way every time.                                                *)
(***************************************************************************)
Min(a, b) == IF a <= b THEN a ELSE b
Max(a, b) == IF a >= b THEN a ELSE b

Site(avail, total, hasTotal, cap, dirty) ==
    [avail |-> avail, total |-> total, hasTotal |-> hasTotal, cap |-> cap, dirty |-> dirty]

Item(field, fromString, toString) ==
    [field |-> field, fromString |-> fromString, toString |-> toString]

History(created, items) == [created |-> created, items |-> items]

\* status changed, and a priority change in the same history
IssueA ==
    JiraIssue(PyStr(<<"K-1">>), PyStr(<<"Done">>), None,
        [histories |-> PyList(<<
            History(PyStr(<<"t1">>),
                    PyList(<<Item(PyStr(<<"status">>), PyStr(<<"Open">>), PyStr(<<"Done">>)),
                             Item(PyStr(<<"priority">>), PyStr(<<"Low">>),
                                  PyStr(<<"High">>))>>))>>)])

\* first assignment (no fromString), a history without items, and a flag
IssueB ==
    JiraIssue(PyStr(<<"K-2">>), PyStr(<<"Open">>), [displayName |-> PyStr(<<"Ann">>)],
        [histories |-> PyList(<<
            History(PyStr(<<"t2">>),
                    PyList(<<Item(PyStr(<<"assignee">>), None, PyStr(<<"Ann">>))>>)),
            History(PyStr(<<"t3">>), None),
            History(PyStr(<<"t3">>),
                    PyList(<<Item(PyStr(<<"Flagged">>), None, PyStr(<<"Impediment">>))>>))>>)])

\* no fields and no changelog
IssueC == [JiraIssue(PyStr(<<"K-3">>), None, None, None) EXCEPT !.fields = None]

\* payloads without a usable key
IssueNoKey == [IssueA EXCEPT !.key = None]
IssueEmptyKey == [IssueA EXCEPT !.key = PyStr(<<>>)]

\* the key of issue number x of the project
KeyOf(x) == PyStr(<<"K-", ToString(x)>>)

ServerIssue(site, x) ==
    IF site.dirty
    THEN CASE x % 3 = 1 -> [IssueA EXCEPT !.key = KeyOf(x)]
           [] x % 3 = 2 -> [IssueC EXCEPT !.key = KeyOf(x)]
           [] OTHER -> IF x % 2 = 1 THEN IssueNoKey ELSE IssueEmptyKey
    ELSE IF x % 2 = 1 THEN [IssueA EXCEPT !.key = KeyOf(x)]
                      ELSE [IssueB EXCEPT !.key = KeyOf(x)]

PageLen(site, startAt, maxResults) ==
    Max(0, Min(Min(maxResults, site.cap), site.avail - startAt))

\* the body of a 200 answer: the issues are ServerIssue(site, start + 1 .. start + n)
SearchBody(site, params) ==
    [start |-> params.startAt,
     n |-> PageLen(site, params.startAt, params.maxResults),
     hasTotal |-> site.hasTotal,
     total |-> site.total]

(***************************************************************************)
(* jira_client.py: JiraClient.search_issues                                *)
(***************************************************************************)
BackoffStart == 1
BackoffCap == 30

RECURSIVE DigitsValue(_)
DigitsValue(s) ==
    IF s = <<>> THEN 0
    ELSE 10 * DigitsValue(SubSeq(s, 1, Len(s) - 1))
         + (CHOOSE d \in 0..9 : ToString(d) = s[Len(s)])

\* float(retry_after) on the header values of this model: a run of digits is its value,
\* anything else (an HTTP date) is a ValueError
FloatOk(s) == AllDigits(s)
Float(s) == DigitsValue(s)

\* `if retry_after:` -- None and the empty string are false
Truthy(x) == x # None /\ x.v # <<>>

\* (mutant) doubling without the cap
NextBackoffUncapped(backoff) == backoff * 2

\* min(backoff * 2, 30)
NextBackoff(backoff) == Min(backoff * 2, BackoffCap)

ClIdle == [params |-> <<>>, backoff |-> 0, sleeps |-> <<>>, headers |-> <<>>, gets |-> <<>>]

\* ",".join(fields)
RECURSIVE JoinComma(_)
JoinComma(xs) ==
    IF Len(xs) <= 1 THEN xs ELSE <<Head(xs), ",">> \o JoinComma(Tail(xs))

\* the query parameters; expand only `if expand:`
SearchParams(jql, fields, expand, start_at, max_results) ==
    IF expand = ""
    THEN [jql |-> jql, startAt |-> start_at, maxResults |-> max_results,
          fields |-> JoinComma(fields)]
    ELSE [jql |-> jql, startAt |-> start_at, maxResults |-> max_results,
          fields |-> JoinComma(fields), expand |-> expand]

\* the entry of search_issues: the parameters are built once, backoff = 1.0
search_issues_enter(params) ==
    [params |-> params, backoff |-> BackoffStart, sleeps |-> <<>>, headers |-> <<>>,
     gets |-> <<>>]

\* c.get(...): the request goes out with the parameters built at entry
SendGet(c) == [c EXCEPT !.gets = Append(@, c.params)]

\* a 429 or 503 answer whose Retry-After header is retry_after (None: no header): the
\* sleep, and the state of the loop after it
SleepFor(c, retry_after) ==
    IF Truthy(retry_after) THEN Float(retry_after.v) ELSE c.backoff

AfterThrottle(c, retry_after) ==
    [c EXCEPT !.sleeps = Append(@, SleepFor(c, retry_after)),
              !.headers = Append(@, retry_after),
              !.backoff = IF Truthy(retry_after) THEN @ ELSE NextBackoff(@)]

RetryAfterValues == {None, PyStr(<<>>), PyStr(<<"0">>), PyStr(<<"4", "5">>), PyStr(<<"Wed">>)}
ThrottleStatuses == {429, 503}
ErrorStatuses == {401, 500}

(***************************************************************************)
(* cli.py: sync                                                            *)
(***************************************************************************)
page_size == 100

SyncFields ==
    <<"created", "updated", "resolutiondate", "issuetype", "status", "assignee",
      "priority", "labels", "components">>

\* (mutant) the tracked fields without Flagged
TrackedFieldsNoFlagged == {PyStr(<<"status">>), PyStr(<<"assignee">>)}

\* `if field not in ("status", "Flagged", "assignee")`
TrackedFields == {PyStr(<<"status">>), PyStr(<<"Flagged">>), PyStr(<<"assignee">>)}

\* The query: the project of the profile, and the day `days` before now
Jql(project_key, days) == [project |-> project_key, days |-> days]

NoPage == [start |-> 0, n |-> 0, hasTotal |-> FALSE, total |-> 0]

SyIdle ==
    [running |-> FALSE, profile |-> <<>>, limit |-> 0, jql |-> Jql(None, 0), start_at |-> 0,
     total_seen |-> 0, total_events |-> 0, page |-> NoPage, i |-> 0, it |-> 0]

\* the locals of sync after line 135
SyncLocals(profile, limit, jql) ==
    [running |-> TRUE, profile |-> profile, limit |-> limit, jql |-> jql, start_at |-> 0,
     total_seen |-> 0, total_events |-> 0, page |-> NoPage, i |-> 0, it |-> 0]

\* the items of an issue in the order the loops over histories and items visit them,
\* each with the `created` of its history
RECURSIVE FlattenHistories(_)
FlattenHistories(hs) ==
    IF hs = <<>> THEN <<>>
    ELSE LET h == Head(hs)
             items == IF h.items = None THEN <<>> ELSE h.items.v
         IN  [k \in 1..Len(items) |-> [changed_at |-> h.created, item |-> items[k]]]
             \o FlattenHistories(Tail(hs))

Items(issue) ==
    IF issue.changelog = None THEN <<>>
    ELSE IF issue.changelog.histories = None THEN <<>>
         ELSE FlattenHistories(issue.changelog.histories.v)

CurrentIssue(site, s) == ServerIssue(site, s.page.start + s.i)

Report(how, s) ==
    [kind |-> how, limit |-> s.limit, issues |-> s.total_seen, events |-> s.total_events]

\* (mutant) the next page starts a full page_size further
AfterPageByPageSize(s) ==
    LET s2 == [s EXCEPT !.start_at = @ + page_size]
        total == IF s.page.hasTotal THEN s.page.total ELSE 0
    IN  IF s2.start_at >= total
        THEN [pc |-> "end", sy |-> s2, how |-> "done"]
        ELSE [pc |-> "call", sy |-> s2, how |-> ""]

\* after the loop over the issues of a page: lines 185-190
AfterPage(s) ==
    LET s2 == [s EXCEPT !.start_at = @ + s.page.n]
        total == IF s.page.hasTotal THEN s.page.total ELSE 0
    IN  IF s2.start_at >= total
        THEN [pc |-> "end", sy |-> s2, how |-> "done"]
        ELSE [pc |-> "call", sy |-> s2, how |-> ""]

\* (mutant) a loop that leaves the page after its first issue
ForIssueStopsAfterFirst(s) ==
    IF s.i <= Min(1, s.page.n) THEN [pc |-> "issue", sy |-> s, how |-> ""] ELSE AfterPage(s)

\* the head of `for issue in issues`
ForIssue(s) ==
    IF s.i <= s.page.n THEN [pc |-> "issue", sy |-> s, how |-> ""] ELSE AfterPage(s)

\* (mutant) a limit check that takes 0 for a limit like any other
LimitReachedNoZero(s) == s.total_seen >= s.limit

\* (mutant) a limit check that lets one issue more through
LimitReachedStrict(s) == s.limit # 0 /\ s.total_seen > s.limit

\* `if limit and total_seen >= limit`
LimitReached(s) == s.limit # 0 /\ s.total_seen >= s.limit

\* the head of the loops over histories and items and, after them, the limit check of
\* line 180
ForItem(site, s) ==
    IF s.it <= Len(Items(CurrentIssue(site, s)))
    THEN [pc |-> "item", sy |-> s, how |-> ""]
    ELSE IF LimitReached(s)
         THEN [pc |-> "end", sy |-> s, how |-> "limit"]
         ELSE ForIssue([s EXCEPT !.i = @ + 1, !.it = 0])

\* the command ends: its report or its error, and what the history keeps of the run
SyncEnd(args, err, ret, d, g) ==
    /\ pc' = "idle"
    /\ sy' = SyIdle
    /\ cl' = ClIdle
    /\ last' = Result("sync", args, err, ret)
    /\ ghost' = IF err # None THEN g
                 ELSE [g EXCEPT !.prev = [set |-> TRUE, args |-> args, ret |-> ret,
                                          db |-> d[db_path(args[1])]],
                                !.done = Min(@ + 1, 2)]

\* the command goes on at `st`, or ends with its totals
Goto(st, d, g) ==
    IF st.pc = "end"
    THEN SyncEnd(<<st.sy.profile, st.sy.limit>>, None, Report(st.how, st.sy), d, g)
    ELSE /\ pc' = st.pc
         /\ sy' = st.sy
         /\ ghost' = g
         /\ UNCHANGED <<last, cl>>

\* (mutant) a sync that does not look at the token
TokenMissingNever(token) == FALSE

\* `if not token:`
TokenMissing(token) == ~Truthy(token)

\* sync, lines 101-135: the profile, the token, initialize_db, the query
SyncStart(profile, limit, days) ==
    /\ pc = "idle"
    /\ ghost.prev.set => ghost.prev.args = <<profile, limit>>
    /\ limit = ghost.limit
    /\ LET args == <<profile, limit>>
           g == [ghost EXCEPT !.upserts = 0, !.inserts = 0, !.calls = <<>>,
                              !.throttled = FALSE]
           prof == load_profile(files, profile)
           token == load_token(keyring, profile, prof.ret.jira_base_url.v)
           init == initialize_db(get_connection(dbs, profile))
       IN  IF prof.err # None
           THEN SyncEnd(args, prof.err, None, dbs, g) /\ UNCHANGED dbs
           ELSE IF TokenMissing(token)
                THEN SyncEnd(args, MissingToken(profile), None, dbs, g) /\ UNCHANGED dbs
                ELSE /\ dbs' = [dbs EXCEPT ![db_path(profile)] = init.db]
                     /\ IF init.err # None
                        THEN SyncEnd(args, init.err, None, dbs', g)
                        ELSE /\ pc' = "call"
                             /\ sy' = SyncLocals(profile, limit,
                                                 Jql(prof.ret.project_key, days))
                             /\ ghost' = g
                             /\ last' = Idle
                             /\ UNCHANGED cl
    /\ UNCHANGED <<files, keyring, net>>

\* search_issues called on its own
ClientCall(params) ==
    /\ pc = "idle"
    /\ cl' = search_issues_enter(params)
    /\ pc' = "get"
    /\ last' = Idle
    /\ UNCHANGED <<files, keyring, dbs, sy, net, ghost>>

\* jira.search_issues(...) is entered: line 138
SearchCall ==
    /\ pc = "call"
    /\ cl' = search_issues_enter(
                SearchParams(sy.jql, SyncFields, "changelog", sy.start_at, page_size))
    /\ ghost' = [ghost EXCEPT !.calls = Append(@, sy.start_at)]
    /\ pc' = "get"
    /\ UNCHANGED <<files, keyring, dbs, last, sy, net>>

\* search_issues raises: sync has no handler, the command ends with the error
SearchRaise(err) ==
    IF sy.running
    THEN SyncEnd(<<sy.profile, sy.limit>>, err, None, dbs, ghost)
    ELSE /\ pc' = "idle"
         /\ cl' = ClIdle
         /\ last' = Result("search_issues", <<cl.params>>, err, None)
         /\ UNCHANGED <<sy, ghost>>

\* one round of the retry loop: the GET is answered 429 or 503
SearchThrottled(status, retry_after, bound) ==
    /\ pc = "get"
    /\ status \in ThrottleStatuses
    /\ Len(cl.sleeps) < bound
    /\ IF Truthy(retry_after) /\ ~FloatOk(retry_after.v)
       THEN SearchRaise([kind |-> "ValueError", hint |-> retry_after.v])
       ELSE /\ cl' = AfterThrottle(SendGet(cl), retry_after)
            /\ ghost' = [ghost EXCEPT !.throttled = @ \/ sy.running]
            /\ UNCHANGED <<pc, sy, last>>
    /\ UNCHANGED <<files, keyring, dbs, net>>

\* the log of the call keeps its latest rounds only
Forget(c) ==
    [c EXCEPT !.sleeps = Tail(@), !.headers = Tail(@), !.gets = Tail(@)]

\* one more round of the retry loop, however many went before: the loop has no
\* counter, only backoff carries over
SearchThrottledAgain(status, retry_after, window) ==
    /\ pc = "get"
    /\ status \in ThrottleStatuses
    /\ Len(cl.sleeps) >= window
    /\ IF Truthy(retry_after) /\ ~FloatOk(retry_after.v)
       THEN SearchRaise([kind |-> "ValueError", hint |-> retry_after.v])
       ELSE /\ cl' = Forget(AfterThrottle(SendGet(cl), retry_after))
            /\ ghost' = [ghost EXCEPT !.throttled = @ \/ sy.running]
            /\ UNCHANGED <<pc, sy, last>>
    /\ UNCHANGED <<files, keyring, dbs, net>>

\* the GET is answered with another error status: raise_for_status
SearchFailed(status) ==
    /\ pc = "get"
    /\ status \in ErrorStatuses
    /\ SearchRaise([kind |-> "HTTPStatusError", hint |-> <<ToString(status)>>])
    /\ UNCHANGED <<files, keyring, dbs, net>>

\* the GET is answered 200: search_issues returns the body; sync, lines 146-148
SearchOk ==
    /\ pc = "get"
    /\ LET c == SendGet(cl)
           data == SearchBody(net, c.gets[Len(c.gets)])
       IN  IF ~sy.running
           THEN /\ pc' = "idle"
                /\ cl' = ClIdle
                /\ last' = Result("search_issues", <<c.params>>, None,
                                  [body |-> data, gets |-> c.gets, sleeps |-> c.sleeps,
                                   headers |-> c.headers])
                /\ UNCHANGED <<sy, ghost>>
           ELSE IF data.n = 0
                THEN SyncEnd(<<sy.profile, sy.limit>>, None, Report("done", sy), dbs, ghost)
                ELSE /\ pc' = "issue"
                     /\ sy' = [sy EXCEPT !.page = data, !.i = 1, !.it = 0]
                     /\ cl' = ClIdle
                     /\ UNCHANGED <<last, ghost>>
    /\ UNCHANGED <<files, keyring, dbs, net>>

\* one issue of the page without a key: `continue`, lines 151-153
SyncSkipIssue ==
    /\ pc = "issue"
    /\ ~Truthy(CurrentIssue(net, sy).key)
    /\ Goto(ForIssue([sy EXCEPT !.i = @ + 1]), dbs, ghost)
    /\ UNCHANGED <<files, keyring, dbs, net>>

\* one issue of the page: upsert_issue, total_seen += 1, lines 155-159
SyncUpsert ==
    /\ pc = "issue"
    /\ Truthy(CurrentIssue(net, sy).key)
    /\ LET issue == CurrentIssue(net, sy)
           r == upsert_issue(get_connection(dbs, sy.profile), issue)
           g == [ghost EXCEPT !.upserts = @ + 1]
       IN  /\ dbs' = [dbs EXCEPT ![db_path(sy.profile)] = r.db]
           /\ IF r.err # None
              THEN SyncEnd(<<sy.profile, sy.limit>>, r.err, None, dbs', ghost)
              ELSE Goto(ForItem(net, [sy EXCEPT !.total_seen = @ + 1, !.it = 1]), dbs', g)
    /\ UNCHANGED <<files, keyring, net>>

\* one history item whose field is not tracked: `continue`, lines 164-166
SyncSkipItem ==
    /\ pc = "item"
    /\ Items(CurrentIssue(net, sy))[sy.it].item.field \notin TrackedFields
    /\ Goto(ForItem(net, [sy EXCEPT !.it = @ + 1]), dbs, ghost)
    /\ UNCHANGED <<files, keyring, dbs, net>>

\* one tracked history item: insert_changelog_event, total_events += 1, lines 168-179
SyncInsert ==
    /\ pc = "item"
    /\ Items(CurrentIssue(net, sy))[sy.it].item.field \in TrackedFields
    /\ LET issue == CurrentIssue(net, sy)
           e == Items(issue)[sy.it]
           r == insert_changelog_event(get_connection(dbs, sy.profile), issue.key,
                                       e.changed_at, e.item.field, e.item.fromString,
                                       e.item.toString)
           g == [ghost EXCEPT !.inserts = @ + 1]
       IN  /\ dbs' = [dbs EXCEPT ![db_path(sy.profile)] = r.db]
           /\ IF r.err # None
              THEN SyncEnd(<<sy.profile, sy.limit>>, r.err, None, dbs', ghost)
              ELSE Goto(ForItem(net, [sy EXCEPT !.total_events = @ + 1, !.it = @ + 1]),
                        dbs', g)
    /\ UNCHANGED <<files, keyring, net>>

(***************************************************************************)
(* Specifications                                                          *)
(***************************************************************************)
\* no site in play
NetIdle == Site(0, 0, TRUE, 0, FALSE)
DbPaths == {db_path(n) : n \in ProfileNames}

\* The profile store and the credential store under configure, whoami, save_profile and
\* load_profile, from an empty application directory and an empty vault
InitConfig ==
    /\ files = [p \in FilePaths |-> NoFile]
    /\ keyring = <<>>
    /\ dbs = [p \in DbPaths |-> NoFile]
    /\ last = Idle
    /\ pc = "idle"
    /\ sy = SyIdle
    /\ cl = ClIdle
    /\ net = NetIdle
    /\ ghost = GhostInit

NextConfig ==
    \/ \E profile \in SampleProfiles : SaveProfile(profile)
    \/ \E n \in ProfileNames : LoadProfile(n)
    \/ \E n \in ProfileNames, u \in RawUrls, e \in Emails, k \in ProjectKeys,
          z \in Timezones, t \in RawTokens : Configure(n, u, e, k, z, t)
    \/ \E n \in ProfileNames, st \in HttpStatuses : Whoami(n, st)

SpecConfig == InitConfig /\ [][NextConfig]_vars

(***************************************************************************)
(* C9: load_profile(n) returns a record equal to the profile most recently *)
(* saved under n, default-valued and list/mapping fields included, and     *)
(* fails with a not-found error naming the profile and the configure       *)
(* command when nothing was saved under n; a save overwrites wholesale.    *)
(***************************************************************************)
C9_LoadReturnsLastSaved ==
    \A n \in ProfileNames :
        LET r == load_profile(files, n)
        IN  IF ghost.saved[n] = None
            THEN /\ r.ret = None
                 /\ r.err # None
                 /\ r.err.kind = "FileNotFoundError"
                 /\ r.err.profile = n
                 /\ r.err.hint = <<"python -m jira-audit.cli configure ">> \o n
            ELSE r.err = None /\ r.ret = ghost.saved[n]

\* a load returned the profile that replaced a different one saved under the same name,
\* with list and mapping fields set
C9_Witness ==
    /\ last.op = "load_profile"
    /\ last.err = None
    /\ last.arg[1] \in ghost.over
    /\ last.ret = ghost.saved[last.arg[1]]
    /\ last.ret.holidays.t = "list"
    /\ last.ret.status_rollups.t = "dict"
    /\ \E m \in ProfileNames : ghost.saved[m] = None

(***************************************************************************)
(* C10: no configure on profile A changes what load_token returns for a    *)
(* different profile B, nor B's profile file.                              *)
(***************************************************************************)
StoredUrls == {normalize_base_url(u) : u \in RawUrls}

C10_ProfilesIsolated ==
    [][\A a \in ProfileNames :
          (last'.op = "configure" /\ last'.arg[1] = a) =>
              \A b \in ProfileNames \ {a} :
                  /\ files'[profile_path(b)] = files[profile_path(b)]
                  /\ \A u \in StoredUrls :
                        load_token(keyring', b, u) = load_token(keyring, b, u)]_vars

\* The changelog_events table under initialize_db and insert_changelog_event, from an
\* empty data directory
InitEvents ==
    /\ files = [p \in FilePaths |-> NoFile]
    /\ keyring = <<>>
    /\ dbs = [p \in DbPaths |-> NoFile]
    /\ last = Idle
    /\ pc = "idle"
    /\ sy = SyIdle
    /\ cl = ClIdle
    /\ net = NetIdle
    /\ ghost = GhostInit

NextEvents ==
    \/ \E n \in DbProfiles : InitializeDb(n)
    \/ \E n \in DbProfiles, k \in EvKeys, at \in EvTimes, f \in EvFields, fv \in EvFrom,
          tv \in EvTo :
            /\ Len(get_connection(dbs, n).events) < MaxEvents
            /\ InsertChangelogEvent(n, k, at, f, fv, tv)

SpecEvents == InitEvents /\ [][NextEvents]_vars

\* The same operations on a data directory that may hold a database an earlier schema
\* version left
InitMigrate ==
    /\ files = [p \in FilePaths |-> NoFile]
    /\ keyring = <<>>
    /\ dbs \in [DbPaths -> PreExisting]
    /\ \A n \in ProfileNames \ DbProfiles : dbs[db_path(n)] = NoFile
    /\ last = Idle
    /\ pc = "idle"
    /\ sy = SyIdle
    /\ cl = ClIdle
    /\ net = NetIdle
    /\ ghost = GhostInit

SpecMigrate == InitMigrate /\ [][NextEvents]_vars

(***************************************************************************)
(* C1: on an initialized database no two changelog_events rows agree on    *)
(* (issue_key, changed_at, field, from_value or '', to_value or ''); an    *)
(* insert whose tuple is stored returns without error and changes nothing, *)
(* and an insert whose tuple is not stored appends exactly that row.       *)
(***************************************************************************)
C1_OrEmpty(x) == IF x = None THEN PyStr(<<>>) ELSE x

C1_Tuple(row) ==
    <<row.issue_key, row.changed_at, row.field, C1_OrEmpty(row.from_value),
      C1_OrEmpty(row.to_value)>>

C1_NoTwoAgree(rows) ==
    \A i, j \in 1..Len(rows) : i # j => C1_Tuple(rows[i]) # C1_Tuple(rows[j])

\* the row an insert_changelog_event call recorded in `last` asks for
C1_Asked(l) == EventRow(0, l.arg[2], l.arg[3], l.arg[4], l.arg[5], l.arg[6])

C1_InsertStep(n) ==
    LET db == get_connection(dbs, n)
        db2 == dbs'[db_path(n)]
        row == C1_Asked(last')
        stored == \E i \in 1..Len(db.events) : C1_Tuple(db.events[i]) = C1_Tuple(row)
    IN  (last'.op = "insert_changelog_event" /\ last'.arg[1] = n /\ Initialized(db)) =>
            /\ last'.err = None
            /\ stored => db2 = db
            /\ ~stored =>
                /\ Len(db2.events) = Len(db.events) + 1
                /\ SubSeq(db2.events, 1, Len(db.events)) = db.events
                /\ [db2.events[Len(db2.events)] EXCEPT !.id = 0] = row
                /\ [db2 EXCEPT !.events = db.events, !.seq_events = db.seq_events] = db
            /\ C1_NoTwoAgree(db2.events)

C1_EventsDeduped == [][\A n \in DbProfiles : C1_InsertStep(n)]_vars

\* two rows that differ only in to_value are stored, and a repeated insert was dropped
C1_Witness ==
    /\ last.op = "insert_changelog_event"
    /\ last.err = None
    /\ ghost.dropped
    /\ LET db == get_connection(dbs, last.arg[1])
       IN  /\ Initialized(db)
           /\ Len(db.events) = 2
           /\ [db.events[1] EXCEPT !.id = 0, !.to_value = None]
                = [db.events[2] EXCEPT !.id = 0, !.to_value = None]

\* C1 as stated: as above, and a call that differs only in to_value from the one call
\* stored before it leaves two rows
C1_DifferingToValueStep(n) ==
    LET db == get_connection(dbs, n)
        db2 == dbs'[db_path(n)]
        row == C1_Asked(last')
    IN  (/\ last'.op = "insert_changelog_event" /\ last'.arg[1] = n /\ Initialized(db)
         /\ Len(db.events) = 1
         /\ [db.events[1] EXCEPT !.id = 0, !.to_value = None] = [row EXCEPT !.to_value = None]
         /\ db.events[1].to_value # row.to_value)
            => Len(db2.events) = 2

C1_AsStated ==
    [][\A n \in DbProfiles : C1_InsertStep(n) /\ C1_DifferingToValueStep(n)]_vars

(***************************************************************************)
(* C7: initialize_db raises no error; on an initialized database it        *)
(* changes nothing; on a database whose changelog_events lacks from_value  *)
(* and to_value it adds both columns and keeps every row.                  *)
(***************************************************************************)
C7_InitializeStep(n) ==
    LET db == dbs[db_path(n)]
        db2 == dbs'[db_path(n)]
    IN  (last'.op = "initialize_db" /\ last'.arg[1] = n) =>
            /\ last'.err = None
            /\ Initialized(db2)
            /\ db # NoFile =>
                /\ db2.events = db.events
                /\ db2.issues = db.issues
                /\ db2.runs = db.runs
            /\ (db # NoFile /\ Initialized(db)) => db2 = db

C7_InitializeIdempotent == [][\A n \in DbProfiles : C7_InitializeStep(n)]_vars

\* The issues table under initialize_db and upsert_issue, from an empty data directory
NextIssues ==
    \/ \E n \in DbProfiles : InitializeDb(n)
    \/ \E n \in DbProfiles, issue \in SampleIssues : UpsertIssue(n, issue)

SpecIssues == InitEvents /\ [][NextIssues]_vars

(***************************************************************************)
(* C2: the issues table holds exactly one row per issue_key that was       *)
(* upserted, and every derived column and the raw payload of that row are  *)
(* those of the most recent upsert_issue call for the key.                 *)
(***************************************************************************)
C2_Column(issue, object, name) ==
    IF issue.fields = None THEN None
    ELSE IF issue.fields[object] = None THEN None ELSE issue.fields[object][name]

C2_Field(issue, name) == IF issue.fields = None THEN None ELSE issue.fields[name]

C2_RowOf(issue) ==
    [issue_key |-> issue.key,
     issue_id |-> issue.id,
     issue_type |-> C2_Column(issue, "issuetype", "name"),
     created_at |-> C2_Field(issue, "created"),
     updated_at |-> C2_Field(issue, "updated"),
     resolutiondate |-> C2_Field(issue, "resolutiondate"),
     status_name |-> C2_Column(issue, "status", "name"),
     assignee_display |-> C2_Column(issue, "assignee", "displayName"),
     raw_json |-> [json |-> issue]]

C2_LastUpsertWins ==
    \A n \in DbProfiles :
        LET db == get_connection(dbs, n)
            upserted == ghost.upserted[n]
        IN  /\ {db.issues[i].issue_key : i \in 1..Len(db.issues)} = DOMAIN upserted
            /\ \A k \in DOMAIN upserted :
                    \E i \in 1..Len(db.issues) :
                        /\ db.issues[i] = C2_RowOf(upserted[k])
                        /\ \A j \in 1..Len(db.issues) : db.issues[j].issue_key = k => j = i

\* a key was upserted again with another status while a row of another key is stored
C2_Witness ==
    /\ last.op = "upsert_issue"
    /\ last.err = None
    /\ LET db == get_connection(dbs, last.arg[1])
       IN  /\ Len(db.issues) = 2
           /\ db.issues[1].issue_key.v = last.arg[2]
           /\ db.issues[1].status_name = PyStr(<<"Done">>)
           /\ db.issues[1].raw_json.json.fields.status.name = PyStr(<<"Done">>)
           /\ db.issues[2].status_name = PyStr(<<"Open">>)

(***************************************************************************)
(* search_issues called on its own against a throttling site               *)
(***************************************************************************)
MaxThrottle == 7

ClientParams ==
    {SearchParams(Jql(PyStr(<<"A", "B">>), 365), SyncFields, e, s, page_size)
        : s \in {0, 100}, e \in {"changelog", ""}}

InitClient ==
    /\ files = [p \in FilePaths |-> NoFile]
    /\ keyring = <<>>
    /\ dbs = [p \in DbPaths |-> NoFile]
    /\ last = Idle
    /\ pc = "idle"
    /\ sy = SyIdle
    /\ cl = ClIdle
    /\ net = Site(150, 150, TRUE, 100, FALSE)
    /\ ghost = GhostInit

NextClient ==
    \/ \E params \in ClientParams : ClientCall(params)
    \/ \E st \in ThrottleStatuses, ra \in RetryAfterValues : SearchThrottled(st, ra, MaxThrottle)
    \/ \E st \in ErrorStatuses : SearchFailed(st)
    \/ SearchOk

SpecClient == InitClient /\ [][NextClient]_vars

(***************************************************************************)
(* C5: within one search_issues call, a 429 or 503 answer with a           *)
(* Retry-After header of n seconds is followed by a sleep of exactly n     *)
(* seconds, the k-th 429 or 503 answer without the header by a sleep of    *)
(* min(2^(k-1), 30) seconds; the request sent again is the identical       *)
(* request, and no backoff sleep exceeds 30 seconds.                       *)
(***************************************************************************)
C5_HasSeconds(h) == h # None /\ h.v # <<>>

C5_Seconds(h) == IF h.v = <<"0">> THEN 0 ELSE IF h.v = <<"4", "5">> THEN 45 ELSE -1

C5_Nth(headers, k) == Cardinality({j \in 1..k : ~C5_HasSeconds(headers[j])})

C5_Log(params, gets, sleeps, headers) ==
    /\ Len(sleeps) = Len(headers)
    /\ \A k \in 1..Len(sleeps) :
          IF C5_HasSeconds(headers[k])
          THEN sleeps[k] = C5_Seconds(headers[k])
          ELSE /\ sleeps[k] = Min(2 ^ (C5_Nth(headers, k) - 1), 30)
               /\ sleeps[k] <= 30
    /\ \A k \in 1..Len(gets) : gets[k] = params

C5_RetryAfterAndBackoff ==
    /\ pc = "get" => /\ C5_Log(cl.params, cl.gets, cl.sleeps, cl.headers)
                     /\ Len(cl.gets) = Len(cl.sleeps)
    /\ (last.op = "search_issues" /\ last.err = None)
          => /\ C5_Log(last.arg[1], last.ret.gets, last.ret.sleeps, last.ret.headers)
             /\ Len(last.ret.gets) = Len(last.ret.sleeps) + 1

\* a call that returned after seven throttled answers, one of them with Retry-After: 45
C5_Witness ==
    /\ last.op = "search_issues"
    /\ last.err = None
    /\ last.ret.sleeps = <<1, 45, 2, 4, 8, 16, 30>>
    /\ last.ret.headers[2] = PyStr(<<"4", "5">>)
    /\ last.arg[1].startAt = 100
    /\ last.ret.gets[8] = last.arg[1]

(***************************************************************************)
(* The sync command against a Jira site                                    *)
(*                                                                         *)
(* Profile b is configured, profile ac has its file but no token, nothing  *)
(* is saved under Ac.  The database of b is absent or, for the small       *)
(* sites, left by an earlier schema version.  The command is run with one  *)
(* limit, again and again.                                                 *)
(***************************************************************************)
SyncThrottle == 1

FullTotals == {1, 100, 150, 201}

OddSites ==
    {Site(6, 6, TRUE, 100, TRUE), Site(5, 5, TRUE, 2, FALSE), Site(3, 3, FALSE, 100, FALSE),
     Site(3, 5, TRUE, 100, FALSE), Site(0, 0, TRUE, 100, FALSE)}

Scenarios ==
    {<<Site(t, t, TRUE, 100, FALSE), 0, NoFile>> : t \in FullTotals}
    \cup {<<Site(150, 150, TRUE, 100, FALSE), l, NoFile>> : l \in {1, 10, 100, 101}}
    \cup {<<s, l, d>> : s \in OddSites, l \in {0, -1, 1, 2}, d \in PreExisting}

Limits == {sc[2] : sc \in Scenarios}

SyncDays == {365}

ConfiguredFiles ==
    save_profile(
        save_profile([p \in FilePaths |-> NoFile],
                     ConfiguredProfile(<<"b">>, <<"h">>, <<"e">>, <<"A", "B">>, <<"U">>)),
        ConfiguredProfile(<<"a", "c">>, <<"h">>, <<"e">>, <<"A", "B">>, <<"U">>))

ConfiguredKeyring == save_token(<<>>, <<"b">>, <<"h">>, PyStr(<<"s">>))

InitSync ==
    /\ files = ConfiguredFiles
    /\ keyring = ConfiguredKeyring
    /\ last = Idle
    /\ pc = "idle"
    /\ sy = SyIdle
    /\ cl = ClIdle
    /\ \E sc \in Scenarios :
          /\ net = sc[1]
          /\ ghost = [GhostInit EXCEPT !.limit = sc[2]]
          /\ dbs = [p \in DbPaths |-> IF p = db_path(<<"b">>) THEN sc[3] ELSE NoFile]

NextSync ==
    \/ \E profile \in ProfileNames, limit \in Limits, days \in SyncDays :
          SyncStart(profile, limit, days)
    \/ SearchCall
    \/ \E st \in ThrottleStatuses, ra \in RetryAfterValues : SearchThrottled(st, ra, SyncThrottle)
    \/ \E st \in ErrorStatuses : SearchFailed(st)
    \/ SearchOk
    \/ SyncSkipIssue
    \/ SyncUpsert
    \/ SyncSkipItem
    \/ SyncInsert

SpecSync == InitSync /\ [][NextSync]_vars

\* a sync of profile b has just ended with its report
SyncDone == pc = "idle" /\ last.op = "sync" /\ last.err = None

\* every issue of the site has a key
AllKeyed(site) == ~site.dirty

(***************************************************************************)
(* C3: with no limit, against a site that reports a fixed total T >= 1 and *)
(* answers every request with the full page of min(100, T - startAt)       *)
(* issues, sync makes exactly ceil(T/100) search requests, at startAt 0,   *)
(* 100, 200, ..., and reports T issues; two requests and 150 issues for    *)
(* T = 150.                                                                *)
(***************************************************************************)
C3_FullPages(site) ==
    /\ site.hasTotal
    /\ site.total >= 1
    /\ site.avail = site.total
    /\ site.cap >= 100
    /\ AllKeyed(site)

C3_Ceil(t) == (t + 99) \div 100

C3_PagesToTotal ==
    (SyncDone /\ last.arg[2] = 0 /\ C3_FullPages(net) /\ ~ghost.throttled)
        => /\ Len(ghost.calls) = C3_Ceil(net.total)
           /\ \A k \in 1..Len(ghost.calls) : ghost.calls[k] = 100 * (k - 1)
           /\ last.ret.issues = net.total
           /\ Len(dbs[db_path(last.arg[1])].issues) = net.total

C3_Witness ==
    /\ SyncDone
    /\ last.arg[2] = 0
    /\ net = Site(150, 150, TRUE, 100, FALSE)
    /\ ~ghost.throttled
    /\ ghost.calls = <<0, 100>>
    /\ last.ret.issues = 150

(***************************************************************************)
(* C4: with a positive limit L against a site whose pages hold at least L  *)
(* issues, sync upserts the first L issues in the order of the answers,    *)
(* stops right after the L-th, reports L issues, and makes no search       *)
(* request after the page that holds the L-th issue; one request for       *)
(* L = 10 and a first page of 100.                                         *)
(***************************************************************************)
C4_StopsAtLimit ==
    (SyncDone /\ last.arg[2] > 0 /\ AllKeyed(net) /\ net.avail >= last.arg[2]
        /\ ((net.hasTotal /\ net.total >= last.arg[2]) \/ PageLen(net, 0, 100) >= last.arg[2]))
        => LET L == last.arg[2]
               c == ghost.calls[Len(ghost.calls)]
           IN  /\ last.ret.kind = "limit"
               /\ last.ret.issues = L
               /\ ghost.upserts = L
               /\ dbs[db_path(last.arg[1])].issues = [k \in 1..L |-> IssueRow(ServerIssue(net, k))]
               /\ c < L
               /\ L <= c + PageLen(net, c, 100)
               /\ (L <= PageLen(net, 0, 100) /\ ~ghost.throttled) => ghost.calls = <<0>>

\* limit 10 of 150: one request; the run before it stopped in the same place
C4_Witness ==
    /\ SyncDone
    /\ last.arg[2] = 10
    /\ net.avail = 150
    /\ ghost.calls = <<0>>
    /\ ghost.upserts = 10
    /\ last.ret.issues = 10
    /\ Len(dbs[db_path(<<"b">>)].issues) = 10

(***************************************************************************)
(* C6: when sync of a profile completes twice against a site that answers  *)
(* the same both times, issues and changelog_events (ids apart) are after  *)
(* the second run what they were after the first, and the second run adds  *)
(* no changelog event row.                                                 *)
(***************************************************************************)
C6_NoId(rows) ==
    [k \in 1..Len(rows) |->
        <<rows[k].issue_key, rows[k].changed_at, rows[k].field, rows[k].from_value,
          rows[k].to_value>>]

C6_ResyncIdempotent ==
    [][(pc # "idle" /\ pc' = "idle" /\ last'.op = "sync" /\ last'.err = None
            /\ ghost.prev.set)
        => LET now == dbs'[db_path(last'.arg[1])]
               before == ghost.prev.db
           IN  /\ now.issues = before.issues
               /\ C6_NoId(now.events) = C6_NoId(before.events)
               /\ Len(now.events) = Len(before.events)]_vars

\* the second completed run of an unlimited sync: it tried its inserts again
C6_Witness ==
    /\ SyncDone
    /\ ghost.done = 2
    /\ last.arg[2] = 0
    /\ ghost.inserts >= 2
    /\ ghost.upserts >= 2
    /\ Len(dbs[db_path(<<"b">>)].events) = ghost.inserts
    /\ ghost.prev.db = dbs[db_path(<<"b">>)]

(***************************************************************************)
(* C8: during sync, a history item whose field is status, Flagged or       *)
(* assignee leaves, once processed, a changelog_events row with the key of *)
(* its issue, the created timestamp of its history, the field and the      *)
(* fromString and toString of the item; an item of any other field is not  *)
(* inserted and gets no row.  When sync ends, this holds of every item of  *)
(* every issue it upserted.                                                *)
(***************************************************************************)
C8_Tracked == {PyStr(<<"status">>), PyStr(<<"Flagged">>), PyStr(<<"assignee">>)}

C8_HasRow(events, key, e) ==
    \E k \in 1..Len(events) :
        /\ events[k].issue_key = key
        /\ events[k].changed_at = e.changed_at
        /\ events[k].field = e.item.field
        /\ events[k].from_value = e.item.fromString
        /\ events[k].to_value = e.item.toString

C8_NoRowOfField(events, key, field) ==
    \A k \in 1..Len(events) : ~(events[k].issue_key = key /\ events[k].field = field)

C8_ItemStep ==
    pc = "item" =>
        LET issue == ServerIssue(net, sy.page.start + sy.i)
            e == Items(issue)[sy.it]
            events == dbs'[db_path(sy.profile)].events
        IN  IF e.item.field \in C8_Tracked
            THEN /\ C8_HasRow(events, issue.key, e)
                 /\ ghost'.inserts = ghost.inserts + 1
            ELSE /\ dbs' = dbs
                 /\ ghost'.inserts = ghost.inserts
                 /\ C8_NoRowOfField(events, issue.key, e.item.field)

C8_EndStep ==
    (pc # "idle" /\ pc' = "idle" /\ last'.op = "sync" /\ last'.err = None) =>
        LET db == dbs'[db_path(last'.arg[1])]
        IN  \A r \in 1..Len(db.issues) :
                LET issue == db.issues[r].raw_json.json
                    items == Items(issue)
                IN  \A k \in 1..Len(items) :
                        IF items[k].item.field \in C8_Tracked
                        THEN C8_HasRow(db.events, issue.key, items[k])
                        ELSE C8_NoRowOfField(db.events, issue.key, items[k].item.field)

C8_TrackedItemsOnly == [][C8_ItemStep /\ C8_EndStep]_vars

\* mid-run: the Flagged item of the second issue has its row, the first issue was
\* upserted with a priority item and has only its status row
C8_Witness ==
    /\ pc = "issue"
    /\ sy.i = 3
    /\ LET db == dbs[db_path(<<"b">>)]
       IN  /\ Len(db.issues) >= 2
           /\ \E k \in 1..Len(db.events) :
                 /\ db.events[k].issue_key = PyStr(<<"K-", "2">>)
                 /\ db.events[k].field = PyStr(<<"Flagged">>)
                 /\ db.events[k].from_value = None
                 /\ db.events[k].to_value = PyStr(<<"Impediment">>)
                 /\ db.events[k].changed_at = PyStr(<<"t3">>)
           /\ \E j \in 1..Len(Items(db.issues[1].raw_json.json)) :
                 Items(db.issues[1].raw_json.json)[j].item.field = PyStr(<<"priority">>)
           /\ C8_NoRowOfField(db.events, PyStr(<<"K-", "1">>), PyStr(<<"priority">>))

(***************************************************************************)
(* The sync_runs table under initialize_db, insert_sync_run_start,         *)
(* finish_sync_run and get_last_successful_sync_started_at, from an empty  *)
(* data directory                                                          *)
(***************************************************************************)
MaxRuns == 3

RunStarts == {PyStr(<<"t1">>), PyStr(<<"t2">>)}
RunFinishes == {PyStr(<<"t3">>)}
RunIssues == {2}
RunEvents == {3}
RunErrors == {None, PyStr(<<>>), PyStr(<<"boom">>)}

NextRuns ==
    \/ \E n \in DbProfiles : InitializeDb(n)
    \/ \E n \in DbProfiles : GetLastSuccessfulSyncStartedAt(n)
    \/ \E n \in DbProfiles, at \in RunStarts :
          /\ Len(get_connection(dbs, n).runs) < MaxRuns
          /\ InsertSyncRunStart(n, at)
    \/ \E n \in DbProfiles, id \in 1..(MaxRuns + 1), at \in RunFinishes, i \in RunIssues,
          e \in RunEvents, err \in RunErrors : FinishSyncRun(n, id, at, i, e, err)

SpecRuns == InitEvents /\ [][NextRuns]_vars

(***************************************************************************)
(* C12: get_last_successful_sync_started_at returns the started_at of the  *)
(* sync_runs row of highest id among the rows without error, and nothing   *)
(* when there is no such row; insert_sync_run_start returns an id it never *)
(* returned before; finish_sync_run(run_id, ...) changes only the row of   *)
(* that id.                                                                *)
(***************************************************************************)
C12_Expected(runs) ==
    LET ok == {k \in 1..Len(runs) : runs[k].error = None}
    IN  IF ok = {} THEN None
        ELSE runs[CHOOSE k \in ok : \A j \in ok : runs[j].id <= runs[k].id].started_at

C12_Step ==
    LET before == get_connection(dbs, last'.arg[1]).runs
        after == get_connection(dbs', last'.arg[1]).runs
    IN  /\ (last'.op = "get_last_successful_sync_started_at" /\ last'.err = None)
            => /\ last'.ret = C12_Expected(after)
               /\ after = before
        /\ (last'.op = "insert_sync_run_start" /\ last'.err = None)
            => /\ last'.ret.v \notin ghost.ids
               /\ \A k \in 1..Len(before) : before[k].id # last'.ret.v
               /\ after = Append(before, RunRow(last'.ret.v, last'.arg[2], None, 0, 0, None))
        /\ (last'.op = "finish_sync_run" /\ last'.err = None)
            => /\ Len(after) = Len(before)
               /\ \A k \in 1..Len(before) :
                     IF before[k].id = last'.arg[2].v
                     THEN after[k] = RunRow(before[k].id, before[k].started_at, last'.arg[3],
                                            last'.arg[4].v, last'.arg[5].v, last'.arg[6])
                     ELSE after[k] = before[k]

C12_RunsTable == [][C12_Step]_vars

\* three runs, the second finished with an error, the third without: the lookup gave
\* the start of the third, not of the first
C12_Witness ==
    /\ last.op = "get_last_successful_sync_started_at"
    /\ last.err = None
    /\ LET runs == dbs[db_path(last.arg[1])].runs
       IN  /\ Len(runs) = 3
           /\ runs[1].error = None
           /\ runs[1].started_at = PyStr(<<"t1">>)
           /\ runs[2].error = PyStr(<<"boom">>)
           /\ runs[3].error = None
           /\ runs[3].finished_at # None
           /\ runs[3].started_at = PyStr(<<"t2">>)
           /\ last.ret = PyStr(<<"t2">>)
           /\ ghost.ids = {1, 2, 3}

(***************************************************************************)
(* C17: get_last_successful_sync_started_at never returns the started_at   *)
(* of a run that insert_sync_run_start began and finish_sync_run has not   *)
(* recorded (finished_at absent).                                          *)
(***************************************************************************)
C17_OnlyFinishedRuns ==
    (last.op = "get_last_successful_sync_started_at" /\ last.err = None /\ last.ret # None)
        => \E k \in 1..Len(dbs[db_path(last.arg[1])].runs) :
              LET r == dbs[db_path(last.arg[1])].runs[k]
              IN  /\ r.started_at = last.ret
                  /\ r.error = None
                  /\ r.finished_at # None

(***************************************************************************)
(* C11: a sync that reaches the initialization of the database creates one *)
(* sync_runs row at its start, finished_at absent, and updates that row    *)
(* once when it ends, with finished_at, the counts of issues and events,   *)
(* and the error if it failed.                                             *)
(***************************************************************************)
C11_RunBracketed ==
    /\ (pc # "idle" /\ sy.running)
          => LET runs == dbs[db_path(sy.profile)].runs
             IN  /\ Len(runs) >= 1
                 /\ runs[Len(runs)].finished_at = None
    /\ SyncDone
          => LET runs == dbs[db_path(last.arg[1])].runs
             IN  /\ Len(runs) >= 1
                 /\ runs[Len(runs)].finished_at # None
                 /\ runs[Len(runs)].issues_count = last.ret.issues
                 /\ runs[Len(runs)].events_count = last.ret.events
                 /\ runs[Len(runs)].error = None

(***************************************************************************)
(* C13: search_issues neither returns nor raises on a 429 or 503 answer,   *)
(* it sleeps and retries; it raises a request-failed error, without retry, *)
(* on the first answer with another error status; it returns the body only *)
(* of a success answer.  When it raises during sync, sync aborts: no       *)
(* further search request, no further write, and the rows of the earlier   *)
(* pages stay.                                                             *)
(***************************************************************************)
C13_Step ==
    /\ (pc = "get" /\ pc' = "idle" /\ last'.err # None)
          => /\ last'.err.kind = "HTTPStatusError"
             /\ last'.err.hint \notin {<<"429">>, <<"503">>}
             /\ dbs' = dbs
             /\ ghost'.calls = ghost.calls
             /\ ghost'.upserts = ghost.upserts
             /\ ghost'.inserts = ghost.inserts
    /\ (pc = "get" /\ pc' = "issue")
          => sy'.page = SearchBody(net, cl.params)

C13_RaisesOnlyOnOtherStatus == [][C13_Step]_vars

(***************************************************************************)
(* C14: sync takes the 'limit reached' exit only when a positive limit is  *)
(* set and the count of issues has reached it; with a limit <= 0 it never  *)
(* does, and goes on until a page is empty or the fetched count reaches    *)
(* the reported total.                                                     *)
(***************************************************************************)
C14_LimitExitOnlyPositive ==
    SyncDone =>
        /\ last.ret.kind = "limit" => (last.arg[2] > 0 /\ last.ret.issues >= last.arg[2])
        /\ last.arg[2] <= 0 => last.ret.kind = "done"

(***************************************************************************)
(* C16: when sync asks for the page at startAt = s > 0, every issue with a *)
(* key of the earlier pages is upserted and every tracked changelog item   *)
(* of it is inserted; within one issue the upsert of the row comes before  *)
(* every insert of an event of that issue.                                 *)
(***************************************************************************)
C16_Stored(db, issue) ==
    /\ \E r \in 1..Len(db.issues) : db.issues[r].issue_key = issue.key
    /\ \A k \in 1..Len(Items(issue)) :
          LET e == Items(issue)[k]
          IN  e.item.field \in {PyStr(<<"status">>), PyStr(<<"Flagged">>), PyStr(<<"assignee">>)}
                => \E j \in 1..Len(db.events) :
                      /\ db.events[j].issue_key = issue.key
                      /\ db.events[j].changed_at = e.changed_at
                      /\ db.events[j].field = e.item.field
                      /\ db.events[j].from_value = e.item.fromString
                      /\ db.events[j].to_value = e.item.toString

C16_PageDone ==
    (pc \in {"call", "get"} /\ sy.start_at > 0)
        => \A x \in 1..sy.start_at :
              LET issue == ServerIssue(net, x)
              IN  (issue.key # None /\ issue.key.v # <<>>)
                    => C16_Stored(dbs[db_path(sy.profile)], issue)

C16_UpsertFirst ==
    (pc = "item" /\ ghost'.inserts = ghost.inserts + 1)
        => \E r \in 1..Len(dbs[db_path(sy.profile)].issues) :
              dbs[db_path(sy.profile)].issues[r].issue_key
                  = ServerIssue(net, sy.page.start + sy.i).key

C16_PageBeforeNext == [][C16_PageDone /\ C16_PageDone' /\ C16_UpsertFirst]_vars

\* the first run over 201 issues asks for its third page: 200 rows are stored
C16_Witness ==
    /\ pc = "get"
    /\ sy.start_at = 200
    /\ ghost.done = 0
    /\ ghost.calls = <<0, 100, 200>>
    /\ Len(dbs[db_path(<<"b">>)].issues) = 200
    /\ Len(dbs[db_path(<<"b">>)].events) = 300

(***************************************************************************)
(* configure and sync together: profile b is configured, profile ac has    *)
(* its file but no token, nothing is saved under Ac; no database yet       *)
(***************************************************************************)
InitGuard ==
    /\ files = ConfiguredFiles
    /\ keyring = ConfiguredKeyring
    /\ dbs = [p \in DbPaths |-> NoFile]
    /\ last = Idle
    /\ pc = "idle"
    /\ sy = SyIdle
    /\ cl = ClIdle
    /\ net = Site(6, 6, TRUE, 100, TRUE)
    /\ ghost = GhostInit

NextGuard ==
    \/ \E n \in ProfileNames, u \in RawUrls, e \in Emails, k \in ProjectKeys,
          z \in Timezones, t \in RawTokens : Configure(n, u, e, k, z, t)
    \/ NextSync

SpecGuard == InitGuard /\ [][NextGuard]_vars

(***************************************************************************)
(* C18: configure with a token that is empty after trimming fails and      *)
(* writes neither the profile file nor a credential entry, an existing     *)
(* profile and token stay as they were; sync on a profile without token    *)
(* fails before the database is initialized and before any search request. *)
(***************************************************************************)
C18_Blank(raw) == \A i \in 1..Len(raw) : raw[i] = " "

C18_Token(p) ==
    LET r == load_profile(files, p)
    IN  IF r.err # None THEN None ELSE load_token(keyring, p, r.ret.jira_base_url.v)

C18_Step ==
    /\ last'.op = "configure"
          => IF C18_Blank(last'.arg[3])
             THEN /\ last'.err # None
                  /\ last'.err.kind = "BadParameter"
                  /\ files' = files
                  /\ keyring' = keyring
                  /\ dbs' = dbs
             ELSE last'.err = None
    /\ (pc = "idle" /\ pc' = "call")
          => (C18_Token(sy'.profile) # None /\ C18_Token(sy'.profile).v # <<>>)
    /\ (pc = "idle" /\ last'.op = "sync" /\ last'.err # None
            /\ load_profile(files, last'.arg[1]).err = None
            /\ (C18_Token(last'.arg[1]) = None \/ C18_Token(last'.arg[1]).v = <<>>))
          => /\ last'.err.kind = "BadParameter"
             /\ dbs' = dbs
             /\ files' = files
             /\ keyring' = keyring
             /\ ghost'.calls = <<>>
             /\ pc' = "idle"

C18_FailedChecksWriteNothing == [][C18_Step]_vars

\* configure of b failed on a blank token after a completed sync of b: the profile, the
\* token and the database of b are still there
C18_Witness ==
    /\ last.op = "configure"
    /\ last.err # None
    /\ last.arg[1] = <<"b">>
    /\ files = ConfiguredFiles
    /\ keyring = ConfiguredKeyring
    /\ ghost.done >= 1
    /\ dbs[db_path(<<"b">>)] # NoFile
    /\ dbs[db_path(<<"a", "c">>)] = NoFile

(***************************************************************************)
(* The sync command running to its end: the site may answer 429 or 503 any *)
(* number of times, the command takes its next step whenever it has one,   *)
(* and every search request is answered in the end with something else     *)
(* than 429 or 503.                                                        *)
(***************************************************************************)
FairScenarios == {<<s, l, d>> : s \in OddSites, l \in {0, -1, 1, 2}, d \in PreExisting}

InitSyncFair ==
    /\ files = ConfiguredFiles
    /\ keyring = ConfiguredKeyring
    /\ last = Idle
    /\ pc = "idle"
    /\ sy = SyIdle
    /\ cl = ClIdle
    /\ \E sc \in FairScenarios :
          /\ net = sc[1]
          /\ ghost = [GhostInit EXCEPT !.limit = sc[2]]
          /\ dbs = [p \in DbPaths |-> IF p = db_path(<<"b">>) THEN sc[3] ELSE NoFile]

NextSyncFair ==
    \/ NextSync
    \/ \E st \in ThrottleStatuses, ra \in RetryAfterValues :
          SearchThrottledAgain(st, ra, SyncThrottle)

Answered == SearchOk \/ \E st \in ErrorStatuses : SearchFailed(st)

SpecSyncFair ==
    /\ InitSyncFair
    /\ [][NextSyncFair]_vars
    /\ WF_vars(SearchCall)
    /\ WF_vars(Answered)
    /\ WF_vars(SyncSkipIssue)
    /\ WF_vars(SyncUpsert)
    /\ WF_vars(SyncSkipItem)
    /\ WF_vars(SyncInsert)

(***************************************************************************)
(* C15: when every search request is answered in the end with something    *)
(* else than 429 or 503 and the reported total is bounded, every sync      *)
(* ends, with its totals or with a failure: a page that is not empty moves *)
(* startAt on by the number of its issues, and the loop is left as soon as *)
(* a page is empty or startAt >= total.  A 429 or 503 answer leaves sync   *)
(* waiting.                                                                *)
(***************************************************************************)
C15_Total == IF sy.page.hasTotal THEN sy.page.total ELSE 0

C15_Step ==
    /\ (pc = "get" /\ pc' = "issue") => sy'.page.n > 0
    /\ (pc = "get" /\ sy.running /\ pc' = "idle" /\ last'.err = None)
          => (PageLen(net, sy.start_at, page_size) = 0 /\ last'.ret.kind = "done")
    /\ (pc \in {"issue", "item"} /\ pc' = "call")
          => /\ sy'.start_at = sy.start_at + sy.page.n
             /\ sy'.start_at > sy.start_at
             /\ sy'.start_at < C15_Total
    /\ (pc \in {"issue", "item"} /\ pc' = "idle" /\ last'.err = None
            /\ last'.ret.kind = "done")
          => sy.start_at + sy.page.n >= C15_Total
    /\ (pc \in {"issue", "item"} /\ pc' \in {"issue", "item"})
          => sy'.start_at = sy.start_at
    /\ (pc = "get" /\ pc' = "get") => (sy' = sy /\ dbs' = dbs /\ last' = last)

C15_SyncEnds == (pc # "idle" ~> pc = "idle") /\ [][C15_Step]_vars

\* a sync of 5 issues, served 2 to the page, ended after three pages although it was
\* throttled
C15_Witness ==
    /\ SyncDone
    /\ ghost.throttled
    /\ net = Site(5, 5, TRUE, 2, FALSE)
    /\ ghost.calls = <<0, 2, 4>>
    /\ last.ret.kind = "done"
    /\ last.ret.issues = 5

====
